---- MODULE Spec2Model ----
(***************************************************************************)
(* Model of the currency converter screen of App.js (MainScreen):          *)
(* the three text fields, validateInput, the async handleConvert with its  *)
(* suspension points (await fetch, await response.json), and the Button    *)
(* whose disabled prop is bound to isLoading.                              *)
(*                                                                         *)
(* JavaScript strings the code inspects character by character (the        *)
(* currency codes and the amount) are sequences of one-character strings.  *)
(* Messages are TLA+ strings.  JavaScript values that may be null or a     *)
(* number are records [t, n, d]: t is the kind, and for t = "num" the      *)
(* value is the rational n / d with d a positive power of ten.  Rounding   *)
(* of IEEE doubles is not modelled.                                        *)
(***************************************************************************)
EXTENDS Integers, Sequences, FiniteSets, TLC

(***************************************************************************)
(* Bounds of the exhaustive input sets.                                    *)
(***************************************************************************)
MaxCodeLen == 4
MaxAmountLen == 3

(***************************************************************************)
(* Characters.                                                             *)
(***************************************************************************)
UpperLetters ==
  <<"A","B","C","D","E","F","G","H","I","J","K","L","M",
    "N","O","P","Q","R","S","T","U","V","W","X","Y","Z">>

LowerLetters ==
  <<"a","b","c","d","e","f","g","h","i","j","k","l","m",
    "n","o","p","q","r","s","t","u","v","w","x","y","z">>

Digits == <<"0","1","2","3","4","5","6","7","8","9">>

WhiteSpace == {" ", "\t", "\n"}

Range(f) == {f[i] : i \in DOMAIN f}

IsDigit(c) == c \in Range(Digits)

DigitVal(c) == (CHOOSE i \in DOMAIN Digits : Digits[i] = c) - 1

(***************************************************************************)
(* String.prototype.toUpperCase, String.prototype.trim and the regular     *)
(* expression /^[A-Z]{3}$/.                                                *)
(***************************************************************************)
UpperChar(c) ==
  IF c \in Range(LowerLetters)
    THEN UpperLetters[CHOOSE i \in DOMAIN LowerLetters : LowerLetters[i] = c]
    ELSE c

ToUpperCase(s) == [i \in 1..Len(s) |-> UpperChar(s[i])]

SetMin(S) == CHOOSE x \in S : \A y \in S : x <= y

SetMax(S) == CHOOSE x \in S : \A y \in S : y <= x

TrimStart(s) ==
  LET keep == {i \in 1..Len(s) : s[i] \notin WhiteSpace}
  IN  IF keep = {} THEN <<>> ELSE SubSeq(s, SetMin(keep), Len(s))

Trim(s) ==
  LET keep == {i \in 1..Len(s) : s[i] \notin WhiteSpace}
  IN  IF keep = {} THEN <<>> ELSE SubSeq(s, SetMin(keep), SetMax(keep))

CurrencyRegexTest(s) ==
  /\ Len(s) = 3
  /\ \A i \in 1..3 : s[i] \in Range(UpperLetters)

(***************************************************************************)
(* JavaScript values: null, undefined, NaN, +Infinity, -Infinity, finite   *)
(* numbers.                                                                *)
(***************************************************************************)
Null == [t |-> "null", n |-> 0, d |-> 1]

Undefined == [t |-> "undefined", n |-> 0, d |-> 1]

NaN == [t |-> "nan", n |-> 0, d |-> 1]

PosInfinity == [t |-> "inf", n |-> 0, d |-> 1]

NegInfinity == [t |-> "ninf", n |-> 0, d |-> 1]

Num(n, d) == [t |-> "num", n |-> n, d |-> d]

RECURSIVE Pow10(_)
Pow10(k) == IF k = 0 THEN 1 ELSE 10 * Pow10(k - 1)

RECURSIVE DigitsToInt(_)
DigitsToInt(s) ==
  IF s = <<>> THEN 0
  ELSE 10 * DigitsToInt(SubSeq(s, 1, Len(s) - 1)) + DigitVal(s[Len(s)])

DigitPrefixLen(s) ==
  SetMax({k \in 0..Len(s) : \A i \in 1..k : IsDigit(s[i])})

InfinityLiteral == <<"I","n","f","i","n","i","t","y">>

StartsWith(s, p) == Len(s) >= Len(p) /\ SubSeq(s, 1, Len(p)) = p

(***************************************************************************)
(* parseFloat: leading white space is skipped, then the longest prefix     *)
(* that is a StrDecimalLiteral is converted, NaN when there is none.  The  *)
(* exponent part of a literal is not modelled: no input set of this        *)
(* module contains the letter e.                                           *)
(***************************************************************************)
ParseFloat(s) ==
  LET t == TrimStart(s)
      hasSign == Len(t) > 0 /\ t[1] \in {"+", "-"}
      neg == hasSign /\ t[1] = "-"
      r == IF hasSign THEN Tail(t) ELSE t
      ip == DigitPrefixLen(r)
      rest == SubSeq(r, ip + 1, Len(r))
      hasDot == Len(rest) > 0 /\ rest[1] = "."
      frac == IF hasDot THEN Tail(rest) ELSE <<>>
      fp == DigitPrefixLen(frac)
      mag == DigitsToInt(SubSeq(r, 1, ip)) * Pow10(fp) + DigitsToInt(SubSeq(frac, 1, fp))
  IN  IF StartsWith(r, InfinityLiteral)
        THEN (IF neg THEN NegInfinity ELSE PosInfinity)
      ELSE IF ip = 0 /\ fp = 0 THEN NaN
      ELSE Num(IF neg THEN 0 - mag ELSE mag, Pow10(fp))

IsNaN(x) == x.t = "nan"

\* x <= 0 on numbers; every comparison with NaN is false.
LeqZero(x) == x.t = "ninf" \/ (x.t = "num" /\ x.n <= 0)

\* x > 0 on numbers.
GtZero(x) == x.t = "inf" \/ (x.t = "num" /\ x.n > 0)

IsFinite(x) == x.t = "num"

\* ToBoolean on the values above.
Truthy(x) == x.t \in {"inf", "ninf"} \/ (x.t = "num" /\ x.n # 0)

\* ToNumber on the values above.
ToNumber(x) ==
  IF x.t = "null" THEN Num(0, 1)
  ELSE IF x.t = "undefined" THEN NaN
  ELSE x

Sign(x) ==
  IF x.t = "inf" THEN 1
  ELSE IF x.t = "ninf" THEN 0 - 1
  ELSE IF x.n > 0 THEN 1 ELSE IF x.n < 0 THEN 0 - 1 ELSE 0

\* The * operator.
Mul(a, b) ==
  LET x == ToNumber(a)
      y == ToNumber(b)
  IN  IF IsNaN(x) \/ IsNaN(y) THEN NaN
      ELSE IF IsFinite(x) /\ IsFinite(y) THEN Num(x.n * y.n, x.d * y.d)
      ELSE IF Sign(x) * Sign(y) = 0 THEN NaN
      ELSE IF Sign(x) * Sign(y) > 0 THEN PosInfinity ELSE NegInfinity

\* Equality of two numbers as values (1/1 = 10/10).
NumEq(a, b) ==
  IF IsFinite(a) /\ IsFinite(b) THEN a.n * b.d = b.n * a.d
  ELSE a.t = b.t /\ a.t # "nan"

(***************************************************************************)
(* Messages of the screen.                                                 *)
(***************************************************************************)
MsgNone == ""

MsgInvalidBase == "Base currency must be a 3-letter uppercase code (e.g. CAD)."

MsgInvalidDest == "Destination currency must be a 3-letter uppercase code (e.g. USD)."

MsgInvalidAmount == "Amount must be a positive number."

MsgInvalidApiKey == "Invalid API Key. Please check the key in App.js."

MsgUnknownRate == "Invalid currency code or missing exchange rate."

MsgNetworkError == "A network error occurred. Please check your connection."

MsgRequestFailed(status) == "Request failed with status " \o ToString(status) \o "."

(***************************************************************************)
(* Inputs: the texts a user may enter and the replies of the provider.     *)
(***************************************************************************)
BoundedSeq(S, n) == UNION {[1..k -> S] : k \in 0..n}

CodeAlphabet == {"a", "A", "1", " "}

AmountAlphabet == {"0", "1", ".", "-", "x", " "}

AllCodeTexts == BoundedSeq(CodeAlphabet, MaxCodeLen)

AllAmountTexts == BoundedSeq(AmountAlphabet, MaxAmountLen) \cup {InfinityLiteral}

CAD == <<"C","A","D">>

USD == <<"U","S","D">>

EUR == <<"E","U","R">>

\* Texts typed while the screen runs: a lower-case code, a padded code,
\* a code that is too short.
CodeTexts == {<<"c","a","d">>, <<" ","u","s","d"," ">>, <<"U","S">>}

\* Amounts typed while the screen runs.
AmountTexts == {<<"1","0">>, <<"0">>, <<"x">>, InfinityLiteral}

Statuses == {200, 299, 300, 401, 500}

Rates == {Num(5, 10), Num(0, 1), Num(0 - 1, 1), Null}

ProviderMessages == {"", "Rate limit exceeded"}

NoBody ==
  [parse |-> "none", hasMessage |-> FALSE, message |-> "",
   hasData |-> FALSE, hasEntry |-> FALSE, key |-> <<>>, rate |-> Undefined]

\* A body that is not JSON, the JSON value null, and JSON objects with an
\* optional message field and an optional data mapping of at most one entry.
Unparseable == [NoBody EXCEPT !.parse = "fail"]

JsonNull == [NoBody EXCEPT !.parse = "null"]

JsonObject == [NoBody EXCEPT !.parse = "object"]

WithMessage(m) == [JsonObject EXCEPT !.hasMessage = TRUE, !.message = m]

WithData == [JsonObject EXCEPT !.hasData = TRUE]

WithRate(k, r) == [WithData EXCEPT !.hasEntry = TRUE, !.key = k, !.rate = r]

Bodies(dest) ==
  {Unparseable, JsonNull, JsonObject, WithData, WithRate(EUR, Num(5, 10))}
    \cup {WithMessage(m) : m \in ProviderMessages}
    \cup {WithRate(dest, r) : r \in Rates}

(***************************************************************************)
(* State of MainScreen.                                                    *)
(***************************************************************************)
VARIABLES
  baseCurrency,     \* useState("CAD")
  destCurrency,     \* useState("USD")
  amount,           \* useState("1")
  convertedAmount,  \* useState(null)
  exchangeRate,     \* useState(null)
  errorMessage,     \* useState("")
  isLoading,        \* useState(false)
  disabled,         \* the disabled prop of the Convert button as last rendered
  calls,            \* the suspended invocations of handleConvert
  attemptGets,      \* requests issued by the latest invocation of handleConvert
  exchange,         \* the request of the latest invocation and the response to it
  alertVisible,     \* the alert raised by the catch block is on screen
  typedBase,        \* text last delivered to the base field's onChangeText
  typedDest         \* text last delivered to the destination field's onChangeText

vars ==
  <<baseCurrency, destCurrency, amount, convertedAmount, exchangeRate,
    errorMessage, isLoading, disabled, calls, attemptGets, exchange,
    alertVisible, typedBase, typedDest>>

fields == <<baseCurrency, destCurrency, amount, typedBase, typedDest>>

outcome == <<convertedAmount, exchangeRate, errorMessage>>

\* Variant of Render: the button is never disabled.
RenderNeverDisabled(loading) == FALSE

\* <Button ... disabled={isLoading} />
Render(loading) == loading

\* Variant of OnChangeCurrencyText: the text is stored as typed.
OnChangeCurrencyTextAsTyped(text) == text

\* onChangeText={(text) => setBaseCurrency(text.toUpperCase())}
OnChangeCurrencyText(text) == ToUpperCase(text)

\* Variant of ValidateInput: the destination is checked before the base.
ValidateInputDestFirst(base, dest, amt) ==
  IF ~CurrencyRegexTest(Trim(dest)) THEN MsgInvalidDest
  ELSE IF ~CurrencyRegexTest(Trim(base)) THEN MsgInvalidBase
  ELSE IF IsNaN(ParseFloat(amt)) \/ LeqZero(ParseFloat(amt)) THEN MsgInvalidAmount
  ELSE MsgNone

\* validateInput: the message it sets, MsgNone when it returns true.
ValidateInput(base, dest, amt) ==
  IF ~CurrencyRegexTest(Trim(base)) THEN MsgInvalidBase
  ELSE IF ~CurrencyRegexTest(Trim(dest)) THEN MsgInvalidDest
  ELSE IF IsNaN(ParseFloat(amt)) \/ LeqZero(ParseFloat(amt)) THEN MsgInvalidAmount
  ELSE MsgNone

\* Variant of ClearedConvertedAmount: the previous result is kept.
KeptConvertedAmount == convertedAmount

\* setConvertedAmount(null) and setExchangeRate(null) at the start of handleConvert.
ClearedConvertedAmount == Null

ClearedExchangeRate == Null

\* Variant of FinallyIsLoading: the flag is not reset.
FinallyStillLoading == TRUE

\* finally { setIsLoading(false) }
FinallyIsLoading == FALSE

\* response.ok
Ok(status) == status \in 200..299

\* errorData?.message of await response.json().catch(() => null)
ErrorDataMessage(body) ==
  IF body.parse = "object" /\ body.hasMessage THEN body.message ELSE ""

\* Variant of RequestFailedMessage: the provider's message is never used.
RequestFailedMessageGeneric(status, body) == MsgRequestFailed(status)

\* errorData?.message || `Request failed with status ${response.status}.`
RequestFailedMessage(status, body) ==
  IF ErrorDataMessage(body) # "" THEN ErrorDataMessage(body)
  ELSE MsgRequestFailed(status)

\* json.data?.[dest] on a parsed object
LookupRate(body, dest) ==
  IF body.hasData /\ body.hasEntry /\ body.key = dest THEN body.rate ELSE Undefined

\* await response.json() throws on a body that is not JSON, json.data throws on null.
JsonBranchThrows(body) == body.parse \in {"fail", "null"}

NewCall(amt, base, dest) ==
  [stage |-> "fetch", numericAmount |-> ParseFloat(amt),
   base |-> ToUpperCase(Trim(base)), dest |-> ToUpperCase(Trim(dest)),
   status |-> 0, body |-> NoBody]

\* No request: validation failed, or nothing was attempted yet.
NoExchange ==
  [base |-> <<>>, dest |-> <<>>, numericAmount |-> Null, status |-> 0, body |-> NoBody]

\* GET .../v1/latest?apikey=...&base_currency=${base}&currencies=${dest}
Request(call) ==
  [base |-> call.base, dest |-> call.dest, numericAmount |-> call.numericAmount,
   status |-> 0, body |-> NoBody]

Remove(s, i) == SubSeq(s, 1, i - 1) \o SubSeq(s, i + 1, Len(s))

Init ==
  /\ baseCurrency = CAD
  /\ destCurrency = USD
  /\ amount = <<"1">>
  /\ convertedAmount = Null
  /\ exchangeRate = Null
  /\ errorMessage = MsgNone
  /\ isLoading = FALSE
  /\ disabled = Render(FALSE)
  /\ calls = <<>>
  /\ attemptGets = 0
  /\ exchange = NoExchange
  /\ alertVisible = FALSE
  /\ typedBase = CAD
  /\ typedDest = USD

(***************************************************************************)
(* Editing the three fields.                                               *)
(***************************************************************************)
SetBaseCurrency(text) ==
  /\ baseCurrency' = OnChangeCurrencyText(text)
  /\ typedBase' = text
  /\ disabled' = Render(isLoading)
  /\ UNCHANGED <<destCurrency, amount, convertedAmount, exchangeRate, errorMessage,
                 isLoading, calls, attemptGets, exchange, alertVisible, typedDest>>

SetDestCurrency(text) ==
  /\ destCurrency' = OnChangeCurrencyText(text)
  /\ typedDest' = text
  /\ disabled' = Render(isLoading)
  /\ UNCHANGED <<baseCurrency, amount, convertedAmount, exchangeRate, errorMessage,
                 isLoading, calls, attemptGets, exchange, alertVisible, typedBase>>

SetAmount(text) ==
  /\ amount' = text
  /\ disabled' = Render(isLoading)
  /\ UNCHANGED <<baseCurrency, destCurrency, convertedAmount, exchangeRate, errorMessage,
                 isLoading, calls, attemptGets, exchange, alertVisible, typedBase, typedDest>>

TypeBase == \E text \in CodeTexts : SetBaseCurrency(text)

TypeDest == \E text \in CodeTexts : SetDestCurrency(text)

TypeAmount == \E text \in AmountTexts : SetAmount(text)

(***************************************************************************)
(* handleConvert up to its first await: a press of the Convert button,     *)
(* which is delivered only while the button is rendered enabled.  Event    *)
(* handlers and continuations run to completion on the single JavaScript   *)
(* thread, and the state updates of one run are committed by a render      *)
(* before the next event is delivered; every action therefore ends with    *)
(* the render of the button.  The alert of the catch block is recorded     *)
(* but does not block the screen.                                          *)
(***************************************************************************)
HandleConvert ==
  /\ ~disabled
  /\ convertedAmount' = ClearedConvertedAmount
  /\ exchangeRate' = ClearedExchangeRate
  /\ IF ValidateInput(baseCurrency, destCurrency, amount) # MsgNone
       THEN /\ errorMessage' = ValidateInput(baseCurrency, destCurrency, amount)
            /\ attemptGets' = 0
            /\ exchange' = NoExchange
            /\ UNCHANGED <<isLoading, calls>>
       ELSE /\ errorMessage' = MsgNone
            /\ isLoading' = TRUE
            /\ calls' = Append(calls, NewCall(amount, baseCurrency, destCurrency))
            /\ attemptGets' = 1
            /\ exchange' = Request(NewCall(amount, baseCurrency, destCurrency))
  /\ disabled' = Render(isLoading')
  /\ UNCHANGED <<fields, alertVisible>>

(***************************************************************************)
(* The catch and finally blocks, as the end of the i-th invocation.        *)
(***************************************************************************)
CatchAndFinally(i) ==
  /\ errorMessage' = MsgNetworkError
  /\ alertVisible' = TRUE
  /\ isLoading' = FinallyIsLoading
  /\ calls' = Remove(calls, i)
  /\ disabled' = Render(isLoading')
  /\ UNCHANGED <<fields, convertedAmount, exchangeRate, attemptGets, exchange>>

\* Variant of FetchRejects: the request is issued again.
FetchRejectsRetry(i) ==
  /\ calls[i].stage = "fetch"
  /\ attemptGets' = attemptGets + 1
  /\ disabled' = Render(isLoading)
  /\ UNCHANGED <<fields, outcome, isLoading, calls, exchange, alertVisible>>

\* fetch(url) rejects: no response was received.
FetchRejects(i) ==
  /\ calls[i].stage = "fetch"
  /\ CatchAndFinally(i)

\* fetch(url) resolves with a response; the code runs up to its next await.
FetchResolves(i) ==
  /\ calls[i].stage = "fetch"
  /\ \E status \in Statuses, body \in Bodies(calls[i].dest) :
       /\ exchange' = [exchange EXCEPT !.status = status, !.body = body]
       /\ IF ~Ok(status) /\ status = 401
           THEN /\ errorMessage' = MsgInvalidApiKey
                /\ isLoading' = FinallyIsLoading
                /\ calls' = Remove(calls, i)
                /\ disabled' = Render(isLoading')
                /\ UNCHANGED <<fields, convertedAmount, exchangeRate, attemptGets, alertVisible>>
           ELSE /\ calls' = [calls EXCEPT ![i].stage = IF Ok(status) THEN "json" ELSE "errorJson",
                                          ![i].status = status,
                                          ![i].body = body]
                /\ disabled' = Render(isLoading)
                /\ UNCHANGED <<fields, outcome, isLoading, attemptGets, alertVisible>>

\* await response.json().catch(() => null) settles on a non-2xx response.
ErrorJsonSettles(i) ==
  /\ calls[i].stage = "errorJson"
  /\ errorMessage' = RequestFailedMessage(calls[i].status, calls[i].body)
  /\ isLoading' = FinallyIsLoading
  /\ calls' = Remove(calls, i)
  /\ disabled' = Render(isLoading')
  /\ UNCHANGED <<fields, convertedAmount, exchangeRate, attemptGets, exchange, alertVisible>>

\* await response.json() settles on a 2xx response.
JsonSettles(i) ==
  /\ calls[i].stage = "json"
  /\ IF JsonBranchThrows(calls[i].body)
       THEN CatchAndFinally(i)
       ELSE LET rate == LookupRate(calls[i].body, calls[i].dest)
            IN  /\ IF Truthy(rate)
                     THEN /\ exchangeRate' = rate
                          /\ convertedAmount' = Mul(calls[i].numericAmount, rate)
                          /\ UNCHANGED errorMessage
                     ELSE /\ errorMessage' = MsgUnknownRate
                          /\ UNCHANGED <<convertedAmount, exchangeRate>>
                /\ isLoading' = FinallyIsLoading
                /\ calls' = Remove(calls, i)
                /\ disabled' = Render(isLoading')
                /\ UNCHANGED <<fields, attemptGets, exchange, alertVisible>>

\* The user closes the alert of the catch block.
DismissAlert ==
  /\ alertVisible
  /\ alertVisible' = FALSE
  /\ disabled' = Render(isLoading)
  /\ UNCHANGED <<fields, outcome, isLoading, calls, attemptGets, exchange>>

Settle ==
  \E i \in 1..Len(calls) :
    FetchRejects(i) \/ FetchResolves(i) \/ ErrorJsonSettles(i) \/ JsonSettles(i)

Next ==
  \/ TypeBase
  \/ TypeDest
  \/ TypeAmount
  \/ HandleConvert
  \/ \E i \in 1..Len(calls) : FetchRejects(i)
  \/ \E i \in 1..Len(calls) : FetchResolves(i)
  \/ \E i \in 1..Len(calls) : ErrorJsonSettles(i)
  \/ \E i \in 1..Len(calls) : JsonSettles(i)
  \/ DismissAlert

Spec == Init /\ [][Next]_vars

(***************************************************************************)
(* The screen after the user has filled in the three fields, one of them   *)
(* with any text of the bounded alphabet and the other two with one of a   *)
(* few texts, and the handler run on those fields.                         *)
(***************************************************************************)
FewCodeTexts == {<<" ","u","s","d"," ">>, <<"U","S">>}

FewAmountTexts == {<<"1">>, <<"0">>}

InputChoices ==
  (AllCodeTexts \X FewCodeTexts \X FewAmountTexts)
    \cup (FewCodeTexts \X AllCodeTexts \X FewAmountTexts)
    \cup (FewCodeTexts \X FewCodeTexts \X AllAmountTexts)

InitInputs ==
  \E in \in InputChoices :
    /\ typedBase = in[1]
    /\ typedDest = in[2]
    /\ baseCurrency = OnChangeCurrencyText(in[1])
    /\ destCurrency = OnChangeCurrencyText(in[2])
    /\ amount = in[3]
    /\ convertedAmount = Null
    /\ exchangeRate = Null
    /\ errorMessage = MsgNone
    /\ isLoading = FALSE
    /\ disabled = Render(FALSE)
    /\ calls = <<>>
    /\ attemptGets = 0
    /\ exchange = NoExchange
    /\ alertVisible = FALSE

NextInputs ==
  \/ HandleConvert
  \/ \E i \in 1..Len(calls) : FetchRejects(i)
  \/ \E i \in 1..Len(calls) : FetchResolves(i)
  \/ \E i \in 1..Len(calls) : ErrorJsonSettles(i)
  \/ \E i \in 1..Len(calls) : JsonSettles(i)
  \/ DismissAlert

SpecInputs == InitInputs /\ [][NextInputs]_vars

\* Every promise the code awaits settles.
LiveSpec == Spec /\ WF_vars(Settle)

(***************************************************************************)
(* Vocabulary of the properties.                                           *)
(***************************************************************************)
HasResult == convertedAmount # Null /\ exchangeRate # Null

NoResult == convertedAmount = Null /\ exchangeRate = Null

HasError == errorMessage # MsgNone

\* The normalised form of a typed currency code.
Normalised(text) == ToUpperCase(Trim(text))

\* No invocation is suspended and the latest one received a response.
SettledWithResponse == calls = <<>> /\ exchange.status # 0

\* The rate the response holds under the requested destination key.
ResponseRate ==
  IF exchange.body.parse = "object" /\ exchange.body.hasData /\ exchange.body.hasEntry
       /\ exchange.body.key = exchange.dest
    THEN exchange.body.rate
    ELSE Undefined

(***************************************************************************)
(* C1: a press of Convert reports the first failing check in the order     *)
(* base, destination, amount: an invalid base gives the base message       *)
(* whatever the other fields hold, a valid base with an invalid            *)
(* destination gives the destination message whatever the amount holds,    *)
(* and the amount message appears only when both codes are valid.          *)
(***************************************************************************)
C1_ValidationOrder ==
  [][HandleConvert =>
       LET baseOk == CurrencyRegexTest(Normalised(typedBase))
           destOk == CurrencyRegexTest(Normalised(typedDest))
       IN  /\ ~baseOk => errorMessage' = MsgInvalidBase
           /\ (baseOk /\ ~destOk) => errorMessage' = MsgInvalidDest
           /\ errorMessage' = MsgInvalidAmount => (baseOk /\ destOk)
           /\ errorMessage' \in {MsgNone, MsgInvalidBase, MsgInvalidDest, MsgInvalidAmount}
    ]_vars

\* The base message is shown while the destination and the amount are invalid too.
C1_Witness ==
  /\ errorMessage = MsgInvalidBase
  /\ ~CurrencyRegexTest(Normalised(typedDest))
  /\ IsNaN(ParseFloat(amount))

(***************************************************************************)
(* C2: a typed currency code passes validation exactly when its trimmed,   *)
(* upper-cased form is three letters A-Z, and the codes sent in the        *)
(* request are those normalised forms.                                     *)
(***************************************************************************)
C2_CodesNormalised ==
  [][HandleConvert =>
       LET baseOk == CurrencyRegexTest(Normalised(typedBase))
           destOk == CurrencyRegexTest(Normalised(typedDest))
       IN  /\ baseOk <=> errorMessage' # MsgInvalidBase
           /\ baseOk => (destOk <=> errorMessage' # MsgInvalidDest)
           /\ attemptGets' = 1 =>
                /\ exchange'.base = Normalised(typedBase)
                /\ exchange'.dest = Normalised(typedDest)
    ]_vars

\* A request went out for codes typed in lower case or with surrounding blanks.
C2_Witness ==
  /\ attemptGets = 1
  /\ exchange.base = Normalised(typedBase) /\ exchange.base # typedBase
  /\ exchange.dest = Normalised(typedDest) /\ exchange.dest # typedDest
  /\ \E i \in 1..Len(typedBase) : typedBase[i] \in Range(LowerLetters)
  /\ \E i \in 1..Len(typedBase) : typedBase[i] \in WhiteSpace

(***************************************************************************)
(* C3: with both codes valid, an amount that does not parse or parses to   *)
(* a value <= 0 gives the amount message, validation succeeds only for a   *)
(* finite amount > 0, and every request carries a finite amount > 0.       *)
(***************************************************************************)
C3_AmountFinitePositive ==
  [][HandleConvert =>
       LET codesOk == /\ CurrencyRegexTest(Normalised(typedBase))
                      /\ CurrencyRegexTest(Normalised(typedDest))
           parsed == ParseFloat(amount)
       IN  /\ (codesOk /\ (IsNaN(parsed) \/ LeqZero(parsed))) => errorMessage' = MsgInvalidAmount
           /\ errorMessage' = MsgNone => (IsFinite(parsed) /\ GtZero(parsed))
           /\ attemptGets' = 1 =>
                (IsFinite(exchange'.numericAmount) /\ GtZero(exchange'.numericAmount))
    ]_vars

(***************************************************************************)
(* C4: a result and an error are never set together, and whenever a step   *)
(* of the handler leaves no invocation suspended, exactly one of the two   *)
(* is set.                                                                 *)
(***************************************************************************)
C4_ResultXorError ==
  /\ [](~(convertedAmount # Null /\ HasError) /\ ~(exchangeRate # Null /\ HasError))
  /\ [][(calls' = <<>> /\ (HandleConvert \/ Settle)) =>
          \/ (HasResult' /\ ~HasError')
          \/ (HasError' /\ NoResult')
       ]_vars

\* A failed attempt has settled with its error and no result on screen.
C4_Witness ==
  /\ SettledWithResponse
  /\ errorMessage = MsgUnknownRate
  /\ NoResult

(***************************************************************************)
(* C5: at most one invocation of handleConvert is suspended at any time,   *)
(* and the Convert button is rendered disabled exactly while one is.       *)
(***************************************************************************)
C5_OneInFlight ==
  /\ Len(calls) <= 1
  /\ disabled <=> Len(calls) = 1

\* A response is being read and the button is disabled.
C5_Witness ==
  /\ Len(calls) = 1
  /\ calls[1].stage = "json"
  /\ disabled

(***************************************************************************)
(* C6: an invocation whose validation fails issues no request and leaves   *)
(* nothing suspended, one whose validation succeeds issues exactly one     *)
(* request, and no other step issues a request or returns an invocation    *)
(* to the requesting stage.                                                *)
(***************************************************************************)
Requesting == {i \in 1..Len(calls) : calls[i].stage = "fetch"}

C6_OneRequestPerAttempt ==
  /\ [](attemptGets <= 1)
  /\ [][IF HandleConvert
          THEN IF errorMessage' # MsgNone
                 THEN attemptGets' = 0 /\ calls' = calls
                 ELSE attemptGets' = 1 /\ Len(calls') = Len(calls) + 1
                      /\ calls'[Len(calls')].stage = "fetch"
          ELSE /\ attemptGets' = attemptGets
               /\ Cardinality(Requesting') <= Cardinality(Requesting)
               /\ Len(calls') <= Len(calls)
       ]_vars

\* An attempt ended in a transport failure after its single request.
C6_Witness ==
  /\ attemptGets = 1
  /\ calls = <<>>
  /\ errorMessage = MsgNetworkError

(***************************************************************************)
(* C7 as stated: a settled non-2xx response with status 401 shows the API  *)
(* key message, any other shows the provider's message field when the      *)
(* body has one and the message with the status otherwise; no result.      *)
(***************************************************************************)
C7_Original ==
  (SettledWithResponse /\ ~Ok(exchange.status)) =>
     /\ NoResult
     /\ IF exchange.status = 401 THEN errorMessage = MsgInvalidApiKey
        ELSE IF exchange.body.parse = "object" /\ exchange.body.hasMessage
          THEN errorMessage = exchange.body.message
        ELSE errorMessage = MsgRequestFailed(exchange.status)

(***************************************************************************)
(* C7 amended: as above, but the provider's message is shown only when it  *)
(* is non-empty; an empty message field gives the message with the status. *)
(***************************************************************************)
C7_NonSuccessMapping ==
  (SettledWithResponse /\ ~Ok(exchange.status)) =>
     /\ NoResult
     /\ errorMessage # MsgNetworkError
     /\ IF exchange.status = 401 THEN errorMessage = MsgInvalidApiKey
        ELSE IF exchange.body.parse = "object" /\ exchange.body.hasMessage
                  /\ exchange.body.message # ""
          THEN errorMessage = exchange.body.message
        ELSE errorMessage = MsgRequestFailed(exchange.status)

\* A non-2xx response with a provider message has settled.
C7_Witness ==
  /\ SettledWithResponse
  /\ exchange.status = 500
  /\ exchange.body.hasMessage
  /\ errorMessage = exchange.body.message

(***************************************************************************)
(* C8 as stated: a settled 2xx response gives a result with the rate of    *)
(* the requested destination key and amount * rate when that rate is       *)
(* present and truthy, and the unknown-rate message for any other body.    *)
(***************************************************************************)
C8_Original ==
  (SettledWithResponse /\ Ok(exchange.status)) =>
     IF Truthy(ResponseRate)
       THEN /\ exchangeRate = ResponseRate
            /\ NumEq(convertedAmount, Mul(exchange.numericAmount, ResponseRate))
            /\ errorMessage = MsgNone
       ELSE /\ errorMessage = MsgUnknownRate
            /\ NoResult

(***************************************************************************)
(* C9 as stated: whenever a result is set, the rate and the converted      *)
(* amount are positive numbers.                                            *)
(***************************************************************************)
C9_Original ==
  HasResult =>
     /\ IsFinite(exchangeRate) /\ GtZero(exchangeRate)
     /\ IsFinite(convertedAmount) /\ GtZero(convertedAmount)

(***************************************************************************)
(* C10: isLoading is true only while an invocation is suspended, and       *)
(* whenever it is true it eventually becomes false again, which enables    *)
(* the Convert button.                                                     *)
(***************************************************************************)
C10_LoadingEnds ==
  /\ [](isLoading => calls # <<>>)
  /\ isLoading ~> (~isLoading /\ ~disabled)

\* The flag is set while the body of an error response is being read.
C10_Witness ==
  /\ isLoading
  /\ Len(calls) = 1
  /\ calls[1].stage = "errorJson"

====
